---- MODULE Spec2Model ----
(***************************************************************************)
(* The avatar rig service of src/spromoji_rig/main.py: the POST /rig       *)
(* handler with its sliding-window rate limiter, credential check,         *)
(* content-addressed local cache, optional remote mirror, fixture overlay  *)
(* and the detection chain (heuristic, learned-model stub, static default).*)
(*                                                                         *)
(* Conventions.                                                            *)
(*  - bytes are sequences of integers 0..255; a Python slice data[a:b] is  *)
(*    Slice(data, a, b);                                                   *)
(*  - text is a TLA+ string, f-strings are built with \o;                  *)
(*  - Optional[T] is a sequence: <<>> is None and <<v>> is the value v;    *)
(*  - a pixel quantity (a Python float) is an exact integer count of       *)
(*    1/2000 pixel, so that every product by 0.25, 0.35, 0.075, 0.8, 1.1,  *)
(*    1.2 ... the code makes is exact; a normalised coordinate is the      *)
(*    reduced fraction <<numerator, denominator>>.  Rounding of binary     *)
(*    floating point is not modelled;                                      *)
(*  - an expression that may raise yields Ok(value) or Raised(exception).   *)
(***************************************************************************)
EXTENDS Integers, Sequences, FiniteSets, TLC

VARIABLES
    now,            \* the value time.time() returns
    _REQUEST_LOG,   \* client id -> list of admitted timestamps (as stored)
    cache_files,    \* avatar hash -> text of CACHE_DIR/<hash>.json, or NoFile
    s3_objects,     \* avatar hash -> body of rigs/<hash>.json, or NoFile
    S3_CLIENT,      \* whether the remote tier is configured
    models,         \* whether SAM_PREDICTOR and CLIP_MODEL are loaded
    input,          \* the argument of a function-level run: a byte payload
                    \* under detection, or the arguments of box_to_poly
    detected,       \* what the function made of input (function-level runs)
    last,           \* the most recent request and its answer
    admits,         \* history: client id -> every admitted timestamp
    flight,         \* the requests in flight: slot -> position and answer
    lockout         \* history: client id -> "limited" since its last
                    \* rejected check, "readmitted" once admitted after it

vars == <<now, _REQUEST_LOG, cache_files, s3_objects, S3_CLIENT, models,
          input, detected, last, admits, flight,
                   lockout>>

----------------------------------------------------------------------------
(* Bounds of the model.                                                    *)

\* capacity of the limiter (_RATE_LIMIT, 60 in the source, scaled down)
RATE_LIMIT == 2
\* length of the window in clock ticks (_WINDOW, 60.0 in the source)
WINDOW == 2
\* the clock stops at MaxTime
MaxTime == 3
\* how many requests the concurrent runs make
MaxInflight == 3

----------------------------------------------------------------------------
(* Python helpers.                                                         *)

None == <<>>
Some(v) == <<v>>

Min(a, b) == IF a <= b THEN a ELSE b
Max(a, b) == IF a >= b THEN a ELSE b
Abs(a) == IF a >= 0 THEN a ELSE 0 - a

RECURSIVE GCD(_, _)
GCD(a, b) == IF b = 0 THEN a ELSE GCD(b, a % b)

\* the exact quotient n / d of two non-negative integers, d > 0
Frac(n, d) == LET g == GCD(n, d) IN <<n \div g, d \div g>>

\* a decimal literal with two places, such as 0.35
Dec(hundredths) == Frac(hundredths, 100)

\* n pixels
Px(n) == n * 2000

\* data[a:b]
Slice(data, a, b) == SubSeq(data, a + 1, Min(b, Len(data)))

\* int.from_bytes(b, byteorder='big')
RECURSIVE from_bytes_big(_)
from_bytes_big(b) ==
    IF b = <<>> THEN 0
    ELSE from_bytes_big(SubSeq(b, 1, Len(b) - 1)) * 256 + b[Len(b)]

\* int.from_bytes(b, byteorder='little')
RECURSIVE from_bytes_little(_)
from_bytes_little(b) ==
    IF b = <<>> THEN 0 ELSE b[1] + 256 * from_bytes_little(Tail(b))

\* the outcome of an expression that may raise: a value, or an exception
Ok(v) == [ok |-> TRUE, val |-> v]
Raised(name) == [ok |-> FALSE, val |-> name]

----------------------------------------------------------------------------
(* get_image_dimensions                                                    *)

PNG_MAGIC == <<137, 80, 78, 71>>
JPEG_MAGIC == <<255, 216>>
GIF87a == <<71, 73, 70, 56, 55, 97>>
GIF89a == <<71, 73, 70, 56, 57, 97>>
RIFF == <<82, 73, 70, 70>>
WEBP == <<87, 69, 66, 80>>
VP8_ == <<86, 80, 56, 32>>
VP8L == <<86, 80, 56, 76>>

DEFAULT_DIMENSIONS == <<512, 512>>

\* the while loop of the JPEG branch: the first pos with the marker ff c0
RECURSIVE jpeg_scan(_, _)
jpeg_scan(data, pos) ==
    IF pos < Len(data) - 8
    THEN IF data[pos + 1] = 255 /\ data[pos + 2] = 192
         THEN <<from_bytes_big(Slice(data, pos + 7, pos + 9)),
                from_bytes_big(Slice(data, pos + 5, pos + 7))>>
         ELSE jpeg_scan(data, pos + 1)
    ELSE DEFAULT_DIMENSIONS

get_image_dimensions(data) ==
    IF Slice(data, 0, 4) = PNG_MAGIC
    THEN IF Len(data) > 24
         THEN <<from_bytes_big(Slice(data, 16, 20)),
                from_bytes_big(Slice(data, 20, 24))>>
         ELSE DEFAULT_DIMENSIONS
    ELSE IF Slice(data, 0, 2) = JPEG_MAGIC
    THEN jpeg_scan(data, 2)
    ELSE IF Slice(data, 0, 6) = GIF87a \/ Slice(data, 0, 6) = GIF89a
    THEN IF Len(data) > 10
         THEN <<from_bytes_little(Slice(data, 6, 8)),
                from_bytes_little(Slice(data, 8, 10))>>
         ELSE DEFAULT_DIMENSIONS
    ELSE IF Slice(data, 0, 4) = RIFF /\ Slice(data, 8, 12) = WEBP
    THEN IF Len(data) > 30
         THEN IF Slice(data, 12, 16) = VP8_
              THEN <<from_bytes_little(Slice(data, 26, 28)) % 16384,
                     from_bytes_little(Slice(data, 28, 30)) % 16384>>
              ELSE IF Slice(data, 12, 16) = VP8L
              THEN LET bits == from_bytes_little(Slice(data, 21, 25))
                   IN <<(bits % 16384) + 1, ((bits \div 16384) % 16384) + 1>>
              ELSE DEFAULT_DIMENSIONS
         ELSE DEFAULT_DIMENSIONS
    ELSE DEFAULT_DIMENSIONS

----------------------------------------------------------------------------
(* analyze_image_content                                                   *)

\* the sampled offsets i of range(0, len(data), sample_step) with i + 2 < len
SampleOffsets(data) ==
    LET sample_size == Min(10000, Len(data) \div 4)
        sample_step == Len(data) \div sample_size
    IN {i \in {k * sample_step : k \in 0..((Len(data) - 1) \div sample_step)} :
            i + 2 < Len(data)}

\* gray < 0.3, with gray = (r*0.299 + g*0.587 + b*0.114) / 255
IsDark(data, i) ==
    299 * data[i + 1] + 587 * data[i + 2] + 114 * data[i + 3] < 76500

IsLight(data, i) ==
    299 * data[i + 1] + 587 * data[i + 2] + 114 * data[i + 3] > 178500

IsColor(data, i) ==
    \/ Abs(data[i + 1] - data[i + 2]) > 30
    \/ Abs(data[i + 2] - data[i + 3]) > 30
    \/ Abs(data[i + 1] - data[i + 3]) > 30

\* {} for fewer than 1000 bytes, else the three counts over total_samples
analyze_image_content(data) ==
    IF Len(data) < 1000
    THEN [empty |-> TRUE, dark |-> 0, light |-> 0, color |-> 0, total |-> 1]
    ELSE [empty |-> FALSE,
          dark |-> Cardinality({i \in SampleOffsets(data) : IsDark(data, i)}),
          light |-> Cardinality({i \in SampleOffsets(data) :
                                    ~IsDark(data, i) /\ IsLight(data, i)}),
          color |-> Cardinality({i \in SampleOffsets(data) : IsColor(data, i)}),
          total |-> Min(10000, Len(data) \div 4)]

\* content_info.get("dark_ratio", 0) > 0.3
DarkRatioHigh(info) == ~info.empty /\ 10 * info.dark > 3 * info.total

\* content_info.get("color_ratio", 0) > 0.5
ColorRatioHigh(info) == ~info.empty /\ 2 * info.color > info.total

----------------------------------------------------------------------------
(* detect_cartoon_features                                                 *)

RegionNames == {"leftEye", "rightEye", "mouth"}

\* the proportional layout; w and h in pixels, the fields in 1/2000 pixel
detect_cartoon_features_fallback(w, h) ==
    [leftEye  |-> [x |-> w * 500, y |-> h * 700, w |-> w * 300, h |-> h * 240,
                   cx |-> w * 650, cy |-> h * 820, rx |-> w * 150, ry |-> h * 120],
     rightEye |-> [x |-> w * 1200, y |-> h * 700, w |-> w * 300, h |-> h * 240,
                   cx |-> w * 1350, cy |-> h * 820, rx |-> w * 150, ry |-> h * 120],
     mouth    |-> [x |-> w * 700, y |-> h * 1300, w |-> w * 600, h |-> h * 300,
                   cx |-> w * 1000, cy |-> h * 1450, rx |-> w * 300, ry |-> h * 150]]

\* v *= num/10
Times(v, num) == (v * num) \div 10

\* the eye regions of a high-contrast image: w, h, rx, ry *= 0.8
ShrinkEye(r) ==
    [r EXCEPT !.w = Times(@, 8), !.h = Times(@, 8),
              !.rx = Times(@, 8), !.ry = Times(@, 8)]

\* the mouth region of a colourful image: w, rx *= 1.2 and h, ry *= 1.1
GrowMouth(r) ==
    [r EXCEPT !.w = Times(@, 12), !.h = Times(@, 11),
              !.rx = Times(@, 12), !.ry = Times(@, 11)]

\* the smallest extent a region is given: max(20, ...)
MinExtent(v) == Max(Px(20), v)

\* "Ensure regions stay within image bounds": the body of the for loop,
\* assignment by assignment (w uses the new x, h the new y)
ClampRegion(r, w, h) ==
    LET x1 == Max(0, Min(r.x, Px(w) - r.w))
        y1 == Max(0, Min(r.y, Px(h) - r.h))
        w1 == MinExtent(Min(r.w, Px(w) - x1))
        h1 == MinExtent(Min(r.h, Px(h) - y1))
    IN [x |-> x1, y |-> y1, w |-> w1, h |-> h1,
        cx |-> x1 + w1 \div 2, cy |-> y1 + h1 \div 2,
        rx |-> w1 \div 2, ry |-> h1 \div 2]

detect_cartoon_features(data) ==
    LET dims == get_image_dimensions(data)
        w == dims[1]
        h == dims[2]
        content_info == analyze_image_content(data)
        base == detect_cartoon_features_fallback(w, h)
        eyes == IF DarkRatioHigh(content_info)
                THEN [base EXCEPT !.leftEye = ShrinkEye(@),
                                  !.rightEye = ShrinkEye(@)]
                ELSE base
        adjusted == IF ColorRatioHigh(content_info)
                    THEN [eyes EXCEPT !.mouth = GrowMouth(@)]
                    ELSE eyes
    IN [k \in RegionNames |-> ClampRegion(adjusted[k], w, h)]

----------------------------------------------------------------------------
(* box_to_poly, the fallbacks and the chain                                *)

\* the conversion with the last two corners in the other order
box_to_poly_rows(box, w, h) ==
    IF w = 0 \/ h = 0
    THEN Raised("ZeroDivisionError")
    ELSE Ok(<< <<Frac(box.x, Px(w)), Frac(box.y, Px(h))>>,
               <<Frac(box.x + box.w, Px(w)), Frac(box.y, Px(h))>>,
               <<Frac(box.x, Px(w)), Frac(box.y + box.h, Px(h))>>,
               <<Frac(box.x + box.w, Px(w)), Frac(box.y + box.h, Px(h))>> >>)

\* division of a pixel quantity by an int: ZeroDivisionError when it is 0
box_to_poly(box, w, h) ==
    IF w = 0 \/ h = 0
    THEN Raised("ZeroDivisionError")
    ELSE Ok(<< <<Frac(box.x, Px(w)), Frac(box.y, Px(h))>>,
               <<Frac(box.x + box.w, Px(w)), Frac(box.y, Px(h))>>,
               <<Frac(box.x + box.w, Px(w)), Frac(box.y + box.h, Px(h))>>,
               <<Frac(box.x, Px(w)), Frac(box.y + box.h, Px(h))>> >>)

\* the three-region list both callers of box_to_poly build; an exception
\* raised by any of the three calls leaves the expression
RigOf(features, w, h) ==
    LET l == box_to_poly(features.leftEye, w, h)
        r == box_to_poly(features.rightEye, w, h)
        m == box_to_poly(features.mouth, w, h)
    IN IF ~l.ok THEN l
       ELSE IF ~r.ok THEN r
       ELSE IF ~m.ok THEN m
       ELSE Ok(<< [type |-> "eyeL", poly |-> l.val],
                  [type |-> "eyeR", poly |-> r.val],
                  [type |-> "mouth", poly |-> m.val] >>)

\* None without the models, else the heuristic again (None and the empty
\* list are both <<>>: "not rig" is rig = <<>>)
sam_clip_fallback(data, loaded) ==
    IF ~loaded THEN Ok(None)
    ELSE LET features == detect_cartoon_features(data)
             dims == get_image_dimensions(data)
         IN IF ~(RegionNames \subseteq DOMAIN features) THEN Ok(None)
            ELSE LET rig == RigOf(features, dims[1], dims[2])
                 IN rig

\* "Final fallback with better proportions"
STATIC_DEFAULT ==
    << [type |-> "eyeL",
        poly |-> << <<Dec(25), Dec(35)>>, <<Dec(40), Dec(35)>>,
                    <<Dec(40), Dec(47)>>, <<Dec(25), Dec(47)>> >>],
       [type |-> "eyeR",
        poly |-> << <<Dec(60), Dec(35)>>, <<Dec(75), Dec(35)>>,
                    <<Dec(75), Dec(47)>>, <<Dec(60), Dec(47)>> >>],
       [type |-> "mouth",
        poly |-> << <<Dec(35), Dec(65)>>, <<Dec(65), Dec(65)>>,
                    <<Dec(65), Dec(80)>>, <<Dec(35), Dec(80)>> >>] >>

----------------------------------------------------------------------------
(* The byte payloads the runs post.                                        *)

\* a PNG signature and IHDR chunk declaring w x h, followed by body
PngBytes(w, h, body) ==
    <<137, 80, 78, 71, 13, 10, 26, 10, 0, 0, 0, 13, 73, 72, 68, 82>>
    \o <<0, 0, w \div 256, w % 256>> \o <<0, 0, h \div 256, h % 256>>
    \o <<8, 2, 0, 0, 0>> \o body

\* a GIF header declaring w x h
GifBytes(w, h, body) ==
    GIF89a \o <<w % 256, w \div 256>> \o <<h % 256, h \div 256>> \o body

\* a JPEG whose SOF0 segment declares w x h
JpegBytes(w, h, body) ==
    <<255, 216, 255, 192, 0, 17, 8>> \o <<h \div 256, h % 256>>
    \o <<w \div 256, w % 256>> \o <<3, 1, 34, 0>> \o body

\* a lossy WebP (VP8) whose frame header declares w x h
Vp8Bytes(w, h) ==
    RIFF \o <<23, 0, 0, 0>> \o WEBP \o VP8_ \o <<10, 0, 0, 0>>
    \o <<0, 0, 0, 157, 1, 42>> \o <<w % 256, w \div 256>>
    \o <<h % 256, h \div 256>> \o <<0>>

\* a lossless WebP (VP8L) whose 14-bit fields hold w - 1 and h - 1
Vp8lBytes(w, h) ==
    RIFF \o <<23, 0, 0, 0>> \o WEBP \o VP8L \o <<10, 0, 0, 0>> \o <<47>>
    \o <<(w - 1) % 256, ((w - 1) \div 256) + 64 * ((h - 1) % 4),
          ((h - 1) \div 4) % 256, (h - 1) \div 1024>>
    \o <<0, 0, 0, 0, 0, 0>>

\* n bytes, every pixel triple (r, g, b)
Fill(n, r, g, b) ==
    [i \in 1..n |-> IF i % 3 = 1 THEN r ELSE IF i % 3 = 2 THEN g ELSE b]

\* the 2x2 solid-gray PNG
GRAY_2x2 == PngBytes(2, 2, Fill(12, 128, 128, 128))
\* a PNG whose header declares a zero width
ZERO_WIDTH == PngBytes(0, 64, Fill(12, 128, 128, 128))
\* the bundled fixture avatar
FIXTURE_AVATAR == <<102, 105, 120, 116, 117, 114, 101>>
\* bytes with no known header
NO_HEADER == <<1, 2, 3>>

\* the payloads of the handler runs
Avatars == <<GRAY_2x2, ZERO_WIDTH, FIXTURE_AVATAR>>

\* hashlib.sha256(data).hexdigest(): a collision-free digest, here the rank
\* of the payload among the payloads of the run
sha256(data) == CHOOSE i \in DOMAIN Avatars : Avatars[i] = data

Hashes == DOMAIN Avatars

----------------------------------------------------------------------------
(* json.dumps / json.loads of a rig, and the fixtures                      *)

RECURSIVE Flatten(_)
Flatten(points) ==
    IF points = <<>> THEN <<>> ELSE Head(points) \o Flatten(Tail(points))

\* one row per region: its type, then the coordinates in reading order
json_dumps(rig) ==
    [i \in DOMAIN rig |-> <<rig[i].type>> \o Flatten(rig[i].poly)]

json_loads(text) ==
    [i \in DOMAIN text |->
        [type |-> text[i][1],
         poly |-> [j \in 1..((Len(text[i]) - 1) \div 2) |->
                      <<text[i][2 * j], text[i][2 * j + 1]>>]]]

\* the rig of fixtures/rigs/<hash of the fixture avatar>.json
FIXTURE_RIG ==
    << [type |-> "eyeL",
        poly |-> << <<Dec(30), Dec(35)>>, <<Dec(40), Dec(35)>>,
                    <<Dec(40), Dec(45)>>, <<Dec(30), Dec(45)>> >>],
       [type |-> "eyeR",
        poly |-> << <<Dec(60), Dec(35)>>, <<Dec(70), Dec(35)>>,
                    <<Dec(70), Dec(45)>>, <<Dec(60), Dec(45)>> >>],
       [type |-> "mouth",
        poly |-> << <<Dec(40), Dec(65)>>, <<Dec(60), Dec(65)>>,
                    <<Dec(60), Dec(75)>>, <<Dec(40), Dec(75)>> >>] >>

\* _RIG_CACHE after _load_fixtures(): path.stem -> json.load(fh)
_RIG_CACHE == [h \in {sha256(FIXTURE_AVATAR)} |-> FIXTURE_RIG]

\* _RIG_CACHE.get(avatar_hash)
RigCacheGet(h) == IF h \in DOMAIN _RIG_CACHE THEN Some(_RIG_CACHE[h]) ELSE None

----------------------------------------------------------------------------
(* The detection chain of rig_endpoint (source lines 328-354).             *)

\* lines 333-343: the rig the heuristic's features give
Heuristic(features, dims) ==
    IF RegionNames \subseteq DOMAIN features
    THEN RigOf(features, dims[1], dims[2])
    ELSE Ok(None)

\* lines 348-354: the static layout unless the stub gave a rig
LastResort(second) ==
    IF ~second.ok THEN second
    ELSE IF second.val # None
    THEN Ok([rig |-> second.val, stages |-> {"heuristic", "sam_clip"}])
    ELSE Ok([rig |-> STATIC_DEFAULT,
             stages |-> {"heuristic", "sam_clip", "static"}])

\* lines 345-354: "if not rig" after the heuristic
Fallbacks(first, data, loaded) ==
    IF ~first.ok THEN first
    ELSE IF first.val # None
    THEN Ok([rig |-> first.val, stages |-> {"heuristic"}])
    ELSE LastResort(sam_clip_fallback(data, loaded))

\* Ok([rig, stages]) with the stages that ran, or the exception raised
DetectionChain(data, loaded) ==
    Fallbacks(Heuristic(detect_cartoon_features(data),
                        get_image_dimensions(data)), data, loaded)

----------------------------------------------------------------------------
(* The rate limiter.                                                       *)

API_KEY == "change-me"

\* str(x) inside an f-string, for an Optional[str]
Str(opt) == IF opt = None THEN "None" ELSE opt[1]

\* f"{request.client.host}:{x_api_key}"
client_id(host, x_api_key) == host \o ":" \o Str(x_api_key)

\* no pruning: every stored timestamp counts
HitsUnpruned(log, t) == log

\* the pruning with t >= window_start: a timestamp exactly WINDOW old stays
HitsInclusive(log, t) == SelectSeq(log, LAMBDA ts : ts >= t - WINDOW)

\* [t for t in _REQUEST_LOG.get(client_id, []) if t > window_start]
Hits(log, t) == SelectSeq(log, LAMBDA ts : ts > t - WINDOW)

\* len(hits) >= _RATE_LIMIT
RateExceeded(hits) == Len(hits) >= RATE_LIMIT

\* the limiter recording the time of a rejected check as well
_check_rate_limit_counting(log, cid, t) ==
    LET hits == Hits(log[cid], t)
    IN IF RateExceeded(hits)
       THEN [ok |-> FALSE, log |-> [log EXCEPT ![cid] = Append(hits, t)]]
       ELSE [ok |-> TRUE, log |-> [log EXCEPT ![cid] = Append(hits, t)]]

\* the limiter storing its own timestamp over whatever other requests
\* stored since it read the record
_check_rate_limit_lossy(log, cid, t) ==
    LET hits == Hits(log[cid], t)
    IN IF RateExceeded(hits)
       THEN [ok |-> FALSE, log |-> log]
       ELSE [ok |-> TRUE, log |-> [log EXCEPT ![cid] = <<t>>]]

\* _check_rate_limit: Raised(429) and the log as it was, or Ok and the log
\* with the pruned hits and now stored for the client
_check_rate_limit(log, cid, t) ==
    LET hits == Hits(log[cid], t)
    IN IF RateExceeded(hits)
       THEN [ok |-> FALSE, log |-> log]
       ELSE [ok |-> TRUE, log |-> [log EXCEPT ![cid] = Append(hits, t)]]

----------------------------------------------------------------------------
(* rig_endpoint                                                            *)

\* base64.b64decode of a form field: the bytes it encodes, or
\* binascii.Error for a text that is no base64
b64decode(text) ==
    IF text.valid THEN Ok(text.bytes) ELSE Raised("binascii.Error")

\* API_KEY and x_api_key != API_KEY
InvalidKey(x_api_key) == API_KEY # "" /\ x_api_key # Some(API_KEY)

\* lines 308-313: the payload, HTTPException(400) or the decoder's error
ReadBody(file, image_b64) ==
    IF file # None THEN Ok(file[1])
    ELSE IF image_b64 # None THEN b64decode(image_b64[1])
    ELSE Raised("HTTP400")

\* what a request does after admission: the answer (status, kind of
\* response, rig and avatar_hash when computed) and the stores, with what
\* the run did: the detection stages it ran, whether it wrote the cache file
\* and put the remote object, where the rig came from, which remote calls
\* raised
Answer(status, kind, detail, rig, hash, stages, files, objects) ==
    [status |-> status, kind |-> kind, detail |-> detail, rig |-> rig,
     hash |-> hash, stages |-> stages, files |-> files, objects |-> objects,
     wrote |-> FALSE, put |-> FALSE, source |-> "none", failed |-> {}]

\* raise HTTPException(status_code, detail): nothing else happens
HttpError(status, detail) ==
    Answer(status, "error", detail, None, None, {}, cache_files, s3_objects)

\* an exception leaves rig_endpoint: the server answers 500
Unhandled(name, hash, stages, files) ==
    Answer(500, "unhandled", name, None, hash, stages, files, s3_objects)

\* lines 318-326: the cache file exists
ServeHit(h, sign_ok) ==
    LET rig == json_loads(cache_files[h][1])
        a == IF S3_CLIENT
             THEN IF sign_ok
                  THEN Answer(302, "redirect", "", None, Some(h), {},
                              cache_files, s3_objects)
                  ELSE [Unhandled("ClientError", Some(h), {}, cache_files)
                            EXCEPT !.failed = {"generate_presigned_url"}]
             ELSE Answer(200, "json", "", Some(rig), Some(h), {},
                         cache_files, s3_objects)
    IN [a EXCEPT !.source = "cache"]

\* the file as open(path, "w") leaves it, before the text is written
write_text_opened(text) == Some(<<>>)

\* cache_file.write_text(text): open, write, close with no suspension
\* point between them; the file other requests find holds the whole text
write_text(text) == Some(text)

\* the handler uploading the rig of a hash without writing its file
StoreRemoteOnly(h, rig, stages, put_ok, sign_ok) ==
    LET objects == [s3_objects EXCEPT ![h] = Some(json_dumps(rig))]
        uploaded == S3_CLIENT /\ put_ok
        a == IF uploaded /\ sign_ok
             THEN Answer(302, "redirect", "", None, Some(h), stages,
                         cache_files, objects)
             ELSE Answer(200, "json", "", Some(rig), Some(h), stages,
                         cache_files,
                         IF uploaded THEN objects ELSE s3_objects)
    IN [a EXCEPT !.put = uploaded]

\* lines 356-369: write the file, mirror it, answer; an exception of
\* put_object or generate_presigned_url is passed over
StoreAndServe(h, rig, stages, put_ok, sign_ok) ==
    LET files == [cache_files EXCEPT ![h] = write_text(json_dumps(rig))]
        objects == [s3_objects EXCEPT ![h] = Some(json_dumps(rig))]
        uploaded == S3_CLIENT /\ put_ok
        a == IF uploaded /\ sign_ok
             THEN Answer(302, "redirect", "", None, Some(h), stages,
                         files, objects)
             ELSE Answer(200, "json", "", Some(rig), Some(h), stages, files,
                         IF uploaded THEN objects ELSE s3_objects)
    IN [a EXCEPT !.wrote = TRUE, !.put = uploaded,
                 !.failed = IF ~S3_CLIENT THEN {}
                            ELSE IF ~put_ok THEN {"put_object"}
                            ELSE IF ~sign_ok THEN {"generate_presigned_url"}
                            ELSE {}]

\* lines 329-369: the rig was produced, or producing it raised
ServeMiss(h, chain, put_ok, sign_ok) ==
    IF ~chain.ok
    THEN [Unhandled(chain.val, Some(h), {"heuristic"}, cache_files)
              EXCEPT !.source = "detection"]
    ELSE [StoreAndServe(h, chain.val.rig, chain.val.stages, put_ok, sign_ok)
              EXCEPT !.source = IF chain.val.stages = {} THEN "fixture"
                                ELSE "detection"]

\* lines 328-354: the fixture of the hash, else the detection chain
Produce(fixture, data) ==
    IF fixture # None
    THEN Ok([rig |-> fixture[1], stages |-> {}])
    ELSE DetectionChain(data, models)

\* the handler without the lookup of the cache file
ServeHashNoLookup(h, data, put_ok, sign_ok) ==
    ServeMiss(h, Produce(RigCacheGet(h), data), put_ok, sign_ok)

\* lines 317-369
ServeHash(h, data, put_ok, sign_ok) ==
    IF cache_files[h] # None
    THEN ServeHit(h, sign_ok)
    ELSE ServeMiss(h, Produce(RigCacheGet(h), data), put_ok, sign_ok)

\* the handler with one cache file for every payload
ServePayloadOneFile(data, put_ok, sign_ok) ==
    ServeHash(1, data, put_ok, sign_ok)

\* lines 315-369
ServePayload(data, put_ok, sign_ok) ==
    ServeHash(sha256(data), data, put_ok, sign_ok)

\* lines 308-369: the body was read, or reading it raised
ServeBody(body, put_ok, sign_ok) ==
    IF body.ok THEN ServePayload(body.val, put_ok, sign_ok)
    ELSE IF body.val = "HTTP400"
    THEN HttpError(400, "no image provided")
    ELSE Unhandled(body.val, None, {}, cache_files)

\* the handler with the payload looked for before the credential
AdmittedPayloadFirst(x_api_key, file, image_b64, put_ok, sign_ok) ==
    IF file = None /\ image_b64 = None
    THEN HttpError(400, "no image provided")
    ELSE IF InvalidKey(x_api_key)
    THEN HttpError(401, "invalid api key")
    ELSE ServeBody(ReadBody(file, image_b64), put_ok, sign_ok)

\* lines 305-369, after the rate limiter admitted the request
Admitted(x_api_key, file, image_b64, put_ok, sign_ok) ==
    IF InvalidKey(x_api_key)
    THEN HttpError(401, "invalid api key")
    ELSE ServeBody(ReadBody(file, image_b64), put_ok, sign_ok)

\* the payload a request carries, when it carries one that decodes
Carried(file, image_b64) ==
    LET body == ReadBody(file, image_b64)
    IN IF body.ok THEN Some(body.val) ELSE None

\* the next state: the stored log, the stores and the answer a
Effects(host, x_api_key, file, image_b64, check, a) ==
    /\ _REQUEST_LOG' = check.log
    /\ cache_files' = a.files
    /\ s3_objects' = a.objects
    /\ last' = [host |-> host, key |-> x_api_key,
                payload |-> Carried(file, image_b64),
                sent |-> file # None \/ image_b64 # None,
                status |-> a.status, kind |-> a.kind, detail |-> a.detail,
                rig |-> a.rig, hash |-> a.hash, stages |-> a.stages,
                wrote |-> a.wrote, put |-> a.put, source |-> a.source,
                failed |-> a.failed]
    /\ UNCHANGED <<now, S3_CLIENT, models, input, detected, flight>>

\* lines 304-369: the limiter's verdict, then the rest of the handler
Checked(host, x_api_key, file, image_b64, put_ok, sign_ok, check) ==
    Effects(host, x_api_key, file, image_b64, check,
            IF check.ok
            THEN Admitted(x_api_key, file, image_b64, put_ok, sign_ok)
            ELSE HttpError(429, "rate limit exceeded"))

\* POST /rig from host, with the header, the two form fields, and the
\* outcome of the remote calls it makes (put_object, generate_presigned_url)
rig_endpoint(host, x_api_key, file, image_b64, put_ok, sign_ok) ==
    Checked(host, x_api_key, file, image_b64, put_ok, sign_ok,
            _check_rate_limit(_REQUEST_LOG, client_id(host, x_api_key), now))

\* the history of admissions, kept beside the program: the time of every
\* check of the client that did not end in 429
Record(host, x_api_key) ==
    /\ admits' = IF last'.status # 429
                 THEN [admits EXCEPT
                          ![client_id(host, x_api_key)] = Append(@, now)]
                 ELSE admits
    /\ lockout' = [lockout EXCEPT ![client_id(host, x_api_key)] =
                      IF last'.status = 429 THEN "limited"
                      ELSE IF @ = "limited" THEN "readmitted" ELSE "no"]

----------------------------------------------------------------------------
(* The clients, the requests and the specifications.                       *)

HOST_A == "fe80::1"
HOST_B == "fe80::1:2"

\* (host, x-api-key) of the handler runs: the valid key
HandlerClients == {<<HOST_B, Some(API_KEY)>>}

\* (host, x-api-key) of the admission runs: the valid key and a wrong one
AdmissionClients == {<<HOST_B, Some(API_KEY)>>, <<HOST_B, Some("bad")>>}

\* (host, x-api-key) of the limiter runs: no header, the header "None", a
\* wrong key from one host and the valid key from the other
LimiterClients ==
    {<<HOST_A, None>>, <<HOST_A, Some("None")>>,
     <<HOST_A, Some("2:" \o API_KEY)>>, <<HOST_B, Some(API_KEY)>>}

ClientIds ==
    {client_id(c[1], c[2]) :
        c \in HandlerClients \cup AdmissionClients \cup LimiterClients}

\* the file and image_b64 fields of a request: a file, or no file and a
\* field that decodes or does not, or neither
Bodies ==
    {<<Some(Avatars[i]), None>> : i \in DOMAIN Avatars}
    \cup {<<None, Some([valid |-> TRUE, bytes |-> GRAY_2x2])>>,
          <<None, Some([valid |-> FALSE, bytes |-> <<>>])>>,
          <<None, None>>}

\* the fields of the admission runs: an image either way, or none
AdmissionBodies ==
    {<<Some(GRAY_2x2), None>>,
     <<None, Some([valid |-> TRUE, bytes |-> GRAY_2x2])>>,
     <<None, None>>}

\* the outcomes of a remote call: none is made without the remote tier
RemoteOutcomes == IF S3_CLIENT THEN BOOLEAN ELSE {TRUE}

\* the slots of the concurrent runs, and a slot before its request
Slots == 1..MaxInflight

Idle ==
    [pc |-> "idle", payload |-> None, unseen |-> FALSE, peers |-> {},
     status |-> 0, kind |-> "none", detail |-> "", rig |-> None,
     hash |-> None, wrote |-> FALSE, source |-> "none", failed |-> {}]

NoRequest ==
    [host |-> "", key |-> None, payload |-> None, sent |-> FALSE,
     status |-> 0, kind |-> "none", detail |-> "", rig |-> None,
     hash |-> None, stages |-> {}, wrote |-> FALSE, put |-> FALSE,
     source |-> "none", failed |-> {}]

Init ==
    /\ now = 0
    /\ _REQUEST_LOG = [c \in ClientIds |-> <<>>]
    /\ cache_files = [h \in Hashes |-> None]
    /\ s3_objects = [h \in Hashes |-> None]
    /\ S3_CLIENT \in BOOLEAN
    /\ models \in BOOLEAN
    /\ input = <<>>
    /\ detected = None
    /\ last = NoRequest
    /\ admits = [c \in ClientIds |-> <<>>]
    /\ lockout = [c \in ClientIds |-> "no"]
    /\ flight = [i \in Slots |-> Idle]

\* time passes
Tick ==
    /\ now < MaxTime
    /\ now' = now + 1
    /\ UNCHANGED <<_REQUEST_LOG, cache_files, s3_objects, S3_CLIENT, models,
                   input, detected, last, admits, flight,
                   lockout>>

\* a request of the handler runs
Request ==
    \E c \in HandlerClients, body \in Bodies,
       put_ok \in RemoteOutcomes, sign_ok \in RemoteOutcomes :
        /\ rig_endpoint(c[1], c[2], body[1], body[2], put_ok, sign_ok)
        /\ UNCHANGED <<admits, lockout>>

Next == Tick \/ Request

Spec == Init /\ [][Next]_vars

\* a request of the limiter runs: it carries no image
BareRequest ==
    \E c \in LimiterClients :
        /\ rig_endpoint(c[1], c[2], None, None, TRUE, TRUE)
        /\ Record(c[1], c[2])

NextClients == Tick \/ BareRequest

SpecClients == Init /\ [][NextClients]_vars

\* a request of the admission runs
AdmissionRequest ==
    \E c \in AdmissionClients, body \in AdmissionBodies,
       put_ok \in RemoteOutcomes, sign_ok \in RemoteOutcomes :
        /\ rig_endpoint(c[1], c[2], body[1], body[2], put_ok, sign_ok)
        /\ UNCHANGED <<admits, lockout>>

NextAdmission == Tick \/ AdmissionRequest

SpecAdmission == Init /\ [][NextAdmission]_vars

----------------------------------------------------------------------------
(* Concurrent runs.  rig_endpoint is a coroutine on one event loop: another  *)
(* request runs only while this one is suspended, and its only suspension   *)
(* point is "await file.read()" on line 309.  A request with a file runs    *)
(* lines 303-309, is suspended, and then runs lines 315-369 in one piece; a *)
(* request without a file runs the whole handler in one piece.              *)

\* the fields of the concurrent runs: a file, or a form field
FlightBodies ==
    {<<Some(GRAY_2x2), None>>, <<Some(FIXTURE_AVATAR), None>>,
     <<None, Some([valid |-> TRUE, bytes |-> GRAY_2x2])>>}

\* the slots suspended in file.read() with the payload
Reading(payload) ==
    {j \in Slots : flight[j].pc = "reading" /\ flight[j].payload = payload}

\* the slot with the answer a of its finished request
Finished(slot, a) ==
    [slot EXCEPT !.pc = "done", !.status = a.status, !.kind = a.kind,
                 !.detail = a.detail, !.rig = a.rig, !.hash = a.hash,
                 !.wrote = a.wrote, !.source = a.source, !.failed = a.failed]

\* the slot of a request that starts: what it carries, whether the hash of
\* its payload has no cache file yet, and the requests in flight with the
\* same payload
Started(payload) ==
    [Idle EXCEPT !.payload = payload,
                 !.unseen = payload # None
                            /\ cache_files[sha256(payload[1])] = None,
                 !.peers = IF payload = None THEN {} ELSE Reading(payload)]

\* lines 303-309 reach "await file.read()"
Suspends(check, x_api_key, file) ==
    check.ok /\ ~InvalidKey(x_api_key) /\ file # None

\* the request of slot i starts: it stops at the await, or it ends in
\* this step with the answer a
Proceed(i, cid, payload, suspended, check, a) ==
    /\ _REQUEST_LOG' = check.log
    /\ admits' = IF check.ok THEN [admits EXCEPT ![cid] = Append(@, now)]
                  ELSE admits
    /\ IF suspended
       THEN /\ flight' = [flight EXCEPT
                             ![i] = [Started(payload) EXCEPT !.pc = "reading"]]
            /\ UNCHANGED <<cache_files, s3_objects>>
       ELSE /\ flight' = [flight EXCEPT ![i] = Finished(Started(payload), a)]
            /\ cache_files' = a.files
            /\ s3_objects' = a.objects
    /\ UNCHANGED <<now, S3_CLIENT, models, input, detected, last, lockout>>

\* lines 303-309, and lines 310-369 as well for a request without a file
Begin ==
    \E i \in Slots, c \in HandlerClients, body \in FlightBodies,
       put_ok \in RemoteOutcomes, sign_ok \in RemoteOutcomes :
        /\ flight[i].pc = "idle"
        /\ \A j \in 1..(i - 1) : flight[j].pc # "idle"
        /\ Proceed(i, client_id(c[1], c[2]), Carried(body[1], body[2]),
                   Suspends(_check_rate_limit(_REQUEST_LOG,
                                              client_id(c[1], c[2]), now),
                            c[2], body[1]),
                   _check_rate_limit(_REQUEST_LOG, client_id(c[1], c[2]), now),
                   IF _check_rate_limit(_REQUEST_LOG,
                                        client_id(c[1], c[2]), now).ok
                   THEN Admitted(c[2], body[1], body[2], put_ok, sign_ok)
                   ELSE HttpError(429, "rate limit exceeded"))

\* file.read() returns: lines 315-369
Complete(i, a) ==
    /\ flight' = [flight EXCEPT ![i] = Finished(flight[i], a)]
    /\ cache_files' = a.files
    /\ s3_objects' = a.objects
    /\ UNCHANGED <<now, _REQUEST_LOG, S3_CLIENT, models, input, detected,
                   last, admits, lockout>>

Resume ==
    \E i \in Slots, put_ok \in RemoteOutcomes, sign_ok \in RemoteOutcomes :
        /\ flight[i].pc = "reading"
        /\ Complete(i, ServePayload(flight[i].payload[1], put_ok, sign_ok))

NextConcurrent == Tick \/ Begin \/ Resume

\* the concurrent runs are made without the learned models
InitConcurrent == Init /\ models = FALSE

SpecConcurrent == InitConcurrent /\ [][NextConcurrent]_vars

----------------------------------------------------------------------------
(* Function-level runs: the detection chain on one payload.                *)

\* the widths and heights the headers of the payloads declare
Dims == {0, 2, 20, 49, 50, 512}

\* what follows the header: a few gray bytes, or 1000 bytes that are dark,
\* dark and colourful, light and colourful, or white
DetectBodies ==
    {Fill(12, 128, 128, 128), Fill(1000, 0, 0, 0), Fill(1000, 200, 0, 100),
     Fill(1000, 255, 200, 255), Fill(1000, 255, 255, 255)}

DetectInputs ==
    {PngBytes(w, h, b) : w \in Dims, h \in Dims, b \in DetectBodies}
    \cup {GifBytes(w, h, b) : w \in Dims, h \in Dims, b \in DetectBodies}
    \cup {JpegBytes(w, h, b) : w \in Dims, h \in Dims, b \in DetectBodies}
    \cup {Vp8Bytes(w, h) : w \in Dims, h \in Dims}
    \cup {Vp8lBytes(w, h) : w \in Dims \ {0}, h \in Dims \ {0}}
    \cup {NO_HEADER, <<>>, PNG_MAGIC, FIXTURE_AVATAR}

InitDetect ==
    /\ now = 0
    /\ _REQUEST_LOG = [c \in ClientIds |-> <<>>]
    /\ cache_files = [h \in Hashes |-> None]
    /\ s3_objects = [h \in Hashes |-> None]
    /\ S3_CLIENT = FALSE
    /\ models \in BOOLEAN
    /\ input \in DetectInputs
    /\ detected = None
    /\ last = NoRequest
    /\ admits = [c \in ClientIds |-> <<>>]
    /\ lockout = [c \in ClientIds |-> "no"]
    /\ flight = [i \in Slots |-> Idle]

\* lines 331-354 on the payload: the dimensions, the boxes and the chain
Detect ==
    /\ detected = None
    /\ detected' = Some([dims |-> get_image_dimensions(input),
                         features |-> detect_cartoon_features(input),
                         chain |-> DetectionChain(input, models)])
    /\ UNCHANGED <<now, _REQUEST_LOG, cache_files, s3_objects, S3_CLIENT,
                   models, input, last, admits, flight,
                   lockout>>

NextDetect == Detect

SpecDetect == InitDetect /\ [][NextDetect]_vars

----------------------------------------------------------------------------
(* Function-level runs: box_to_poly on one box.                            *)

\* the widths and heights of the calls
PolyDims == {1, 3, 512}

\* the boxes of the calls, x, y, w, h in units of 1/2000 pixel: inside the
\* image or not, starting left of it, of no width
PolyBoxes ==
    [x : {0 - 1000, 0, 1000, Px(7)}, y : {0, 300, Px(5)},
     w : {0, 150, Px(20)}, h : {Px(1), Px(20)}]

InitPoly ==
    /\ now = 0
    /\ _REQUEST_LOG = [c \in ClientIds |-> <<>>]
    /\ cache_files = [h \in Hashes |-> None]
    /\ s3_objects = [h \in Hashes |-> None]
    /\ S3_CLIENT = FALSE
    /\ models = FALSE
    /\ input \in [box : PolyBoxes, w : PolyDims, h : PolyDims]
    /\ detected = None
    /\ last = NoRequest
    /\ admits = [c \in ClientIds |-> <<>>]
    /\ lockout = [c \in ClientIds |-> "no"]
    /\ flight = [i \in Slots |-> Idle]

\* box_to_poly(box, w, h)
Convert ==
    /\ detected = None
    /\ detected' = Some(box_to_poly(input.box, input.w, input.h))
    /\ UNCHANGED <<now, _REQUEST_LOG, cache_files, s3_objects, S3_CLIENT,
                   models, input, last, admits, flight,
                   lockout>>

NextPoly == Convert

SpecPoly == InitPoly /\ [][NextPoly]_vars

----------------------------------------------------------------------------
(* Properties.                                                             *)

\* the last request passed the limiter and the credential check and carried
\* a payload
Served == last.status # 0 /\ last.status # 429 /\ last.key = Some(API_KEY)
          /\ last.payload # None

\* a list of exactly 3 regions, eyeL, eyeR, mouth, of 4 points each
WellShaped(rig) ==
    /\ Len(rig) = 3
    /\ <<rig[1].type, rig[2].type, rig[3].type>> = <<"eyeL", "eyeR", "mouth">>
    /\ \A i \in 1..3 : Len(rig[i].poly) = 4

\* C1: every request that passes rate limiting and the credential check and
\* carries a payload is answered with a rig of exactly 3 regions eyeL, eyeR,
\* mouth of 4 points each (inline, or behind the redirect), whichever stage
\* produced it: the caller never observes a missing rig.
C1_AlwaysShapedRig ==
    Served =>
        /\ last.kind \in {"json", "redirect"}
        /\ last.kind = "json" => last.rig # None /\ WellShaped(last.rig[1])

\* c lies in [0, 1], for a reduced fraction c
InUnit(c) == 0 <= c[1] /\ c[1] <= c[2]

\* the box lies inside [0, w] x [0, h] and has a positive extent
BoxInside(box, w, h) ==
    /\ box.x >= 0 /\ box.y >= 0 /\ box.w > 0 /\ box.h > 0
    /\ box.x + box.w <= Px(w) /\ box.y + box.h <= Px(h)

\* C2: for every payload and the width and height recovered from it, every
\* box of detect_cartoon_features lies inside [0,width] x [0,height] with
\* w > 0 and h > 0, and every coordinate of every polygon of the rig made
\* from the boxes is in [0,1].  (Stated for the payloads that declare an
\* image, with a width and a height of at least one pixel.)
C2_BoxesInsideImage ==
    (detected # None /\ detected[1].dims[1] > 0 /\ detected[1].dims[2] > 0) =>
        /\ \A k \in RegionNames :
              BoxInside(detected[1].features[k],
                        detected[1].dims[1], detected[1].dims[2])
        /\ detected[1].chain.ok =>
              \A i \in DOMAIN detected[1].chain.val.rig :
                  \A j \in DOMAIN detected[1].chain.val.rig[i].poly :
                      /\ InUnit(detected[1].chain.val.rig[i].poly[j][1])
                      /\ InUnit(detected[1].chain.val.rig[i].poly[j][2])

\* the step is a request (the clock stands still)
RequestStep == now' = now /\ vars' # vars

\* the client id of the request that made the step
Requester == client_id(last'.host, last'.key)

\* how many admissions of the client the history holds in (lo, hi]
AdmitsIn(cid, lo, hi) ==
    Cardinality({i \in DOMAIN admits[cid] :
                    lo < admits[cid][i] /\ admits[cid][i] <= hi})

\* no window (t - WINDOW, t] holds more than RATE_LIMIT admissions
WindowBound ==
    \A cid \in ClientIds, t \in 0..MaxTime :
        AdmitsIn(cid, t - WINDOW, t) <= RATE_LIMIT

\* C3: per client id, over checks at non-decreasing times, no span of WINDOW
\* seconds (t - WINDOW, t] holds more than RATE_LIMIT admitted checks; a
\* check is rejected with 429 exactly when RATE_LIMIT checks of the client
\* were admitted in the WINDOW seconds before it; and a check made when the
\* client's last admission is WINDOW or more seconds old is admitted.
C3_SlidingWindow ==
    [][/\ WindowBound'
       /\ RequestStep =>
            /\ last'.status = 429
                 <=> AdmitsIn(Requester, now - WINDOW, now) = RATE_LIMIT
            /\ AdmitsIn(Requester, now - WINDOW, now) = 0
                 => last'.status # 429]_vars

\* a client is rejected in a window that it filled after an earlier window
\* of its admissions had expired
C3_Witness ==
    /\ last.status = 429
    /\ Len(admits[client_id(last.host, last.key)]) > RATE_LIMIT
    /\ AdmitsIn(client_id(last.host, last.key), now - WINDOW, now) = RATE_LIMIT

\* C4: the records are independent per (host, x-api-key): the check of a
\* request reads and changes the record of its own pair only, so that no
\* request reduces what another pair can still have admitted.
C4_RecordsIndependent ==
    [][RequestStep =>
        \A c \in LimiterClients :
            c # <<last'.host, last'.key>> =>
                _REQUEST_LOG'[client_id(c[1], c[2])]
                    = _REQUEST_LOG[client_id(c[1], c[2])]]_vars

\* what the caller gets: the hash and the rig of a JSON answer, the key and
\* the object the URL of a redirect leads to
ReturnedHash(r) == IF r.kind \in {"json", "redirect"} THEN r.hash ELSE None
ReturnedRig(r, objects) ==
    IF r.kind = "json" THEN r.rig
    ELSE IF r.kind = "redirect" /\ objects[r.hash[1]] # None
    THEN Some(json_loads(objects[r.hash[1]][1]))
    ELSE None

\* C5: two admitted, authenticated requests carrying the same bytes, one
\* after the other, return the same hash, and the second returns the rig
\* the first returned (inline or behind the redirect).  (Stated for a first
\* request that was answered with a rig inline.)
C5_Idempotent ==
    [][(/\ RequestStep
        /\ Served /\ Served'
        /\ last.kind = "json"
        /\ last'.payload = last.payload) =>
            /\ ReturnedHash(last') # None
            /\ ReturnedHash(last') = ReturnedHash(last)
            /\ ReturnedRig(last', s3_objects') # None
            /\ ReturnedRig(last', s3_objects') = ReturnedRig(last, s3_objects)]_vars

\* C6: with the remote tier configured, a request during which put_object
\* or generate_presigned_url raised is answered 200 with the rig inline, on
\* the cache-miss path and on the cache-hit path.
C6_RemoteErrorsServedInline ==
    last.failed # {} =>
        last.status = 200 /\ last.kind = "json" /\ last.rig # None

\* the stored timestamps of the client inside the window (now - WINDOW, now]
InWindow(cid) ==
    Cardinality({i \in DOMAIN _REQUEST_LOG[cid] :
                    _REQUEST_LOG[cid][i] > now - WINDOW})

C8_NoUnhandledFault ==
    (last.status # 0 /\ last.status # 429 /\ last.key = Some(API_KEY)
     /\ last.sent) => last.kind # "unhandled"

\* C9: for the 2x2 solid-gray PNG the heuristic and the stub yield no
\* result, and the endpoint (without the remote tier) answers 200 with
\* exactly the static default layout.
C9_GrayGetsStaticDefault ==
    (Served /\ ~S3_CLIENT /\ last.payload = Some(GRAY_2x2)) =>
        last.status = 200 /\ last.rig = Some(STATIC_DEFAULT)

\* C10: a request whose hash is a fixture hash and that is answered from the
\* fixture set runs no detection stage, writes no local cache file and
\* uploads no remote object for that hash.
C10_FixtureReadOnly ==
    last.source = "fixture" =>
        /\ last.rig \in {None, Some(FIXTURE_RIG)} /\ last.stages = {}
        /\ ~last.wrote /\ ~last.put
        /\ cache_files[last.hash[1]] = None
        /\ s3_objects[last.hash[1]] = None

\* the hashes that have a local cache file
Cached == {h \in Hashes : cache_files[h] # None}

\* C11: a local cache entry is immutable: once the file of a hash exists, no
\* later request, for the same or another payload, changes its content or
\* deletes it; and a request carrying a payload of hash H writes no file
\* but that of H.
C11_CacheEntryImmutable ==
    [][/\ \A h \in Cached : cache_files'[h] = cache_files[h]
       /\ (RequestStep /\ last'.payload # None) =>
             \A h \in Hashes \ {sha256(last'.payload[1])} :
                 cache_files'[h] = cache_files[h]]_vars

\* two entries exist and the last request was for a hash that had its entry
C11_Witness ==
    Cardinality(Cached) >= 2 /\ last.source = "cache" /\ last.hash # None

\* the point multiplied back by (w, h): a pair of pixel quantities, or None
\* when a product is no whole count of 1/2000 pixel
ScaleBack(point, w, h) ==
    IF (point[1][1] * Px(w)) % point[1][2] = 0
       /\ (point[2][1] * Px(h)) % point[2][2] = 0
    THEN Some(<<(point[1][1] * Px(w)) \div point[1][2],
                (point[2][1] * Px(h)) \div point[2][2]>>)
    ELSE None

\* C12: for every box and every width > 0 and height > 0, box_to_poly gives
\* 4 points, top-left, top-right, bottom-right, bottom-left, and each point
\* multiplied back by (width, height) is the corner (x, y), (x+w, y),
\* (x+w, y+h), (x, y+h) of the box (in exact arithmetic).
C12_PolyRoundTrip ==
    (detected # None /\ input.w > 0 /\ input.h > 0) =>
        /\ detected[1].ok
        /\ Len(detected[1].val) = 4
        /\ <<ScaleBack(detected[1].val[1], input.w, input.h),
              ScaleBack(detected[1].val[2], input.w, input.h),
              ScaleBack(detected[1].val[3], input.w, input.h),
              ScaleBack(detected[1].val[4], input.w, input.h)>>
           = <<Some(<<input.box.x, input.box.y>>),
               Some(<<input.box.x + input.box.w, input.box.y>>),
               Some(<<input.box.x + input.box.w, input.box.y + input.box.h>>),
               Some(<<input.box.x, input.box.y + input.box.h>>)>>

\* a box of four distinct corners was converted, and the division left
\* coordinates that are no whole numbers
C12_Witness ==
    /\ detected # None /\ detected[1].ok
    /\ input.box.w > 0 /\ input.box.x > 0 /\ input.w > 1
    /\ detected[1].val[1][1][2] > 1 /\ detected[1].val[3][2][2] > 1

\* C13: the cache lookup precedes all detection work: a request whose hash
\* has a local cache file runs no detection stage (heuristic, stub, static
\* default) and writes no cache file; in particular the second of two
\* requests with the same bytes, the first of which was answered 200 or
\* 302, runs no detection.
C13_LookupBeforeDetection ==
    [][/\ (RequestStep /\ Served'
              /\ cache_files[sha256(last'.payload[1])] # None) =>
            /\ last'.source = "cache" /\ last'.stages = {}
            /\ ~last'.wrote /\ cache_files' = cache_files
       /\ (RequestStep /\ Served /\ Served'
              /\ last.status \in {200, 302}
              /\ last'.payload = last.payload) =>
            last'.stages = {} /\ ~last'.wrote]_vars

\* the 2x2 PNG, whose first request ran the heuristic, was served from its
\* cache file
C13_Witness ==
    /\ Served /\ last.payload = Some(GRAY_2x2)
    /\ last.source = "cache" /\ last.stages = {} /\ ~last.wrote
    /\ cache_files[sha256(GRAY_2x2)] # None

\* the stored record of the client holds no timestamp older than
\* now - WINDOW
NoStale(log, cid) == \A i \in DOMAIN log[cid] : log[cid][i] > now - WINDOW

C15_DimensionsPositive ==
    detected # None =>
        /\ detected[1].dims[1] > 0 /\ detected[1].dims[2] > 0
        /\ detected[1].chain.ok

\* C19: whenever the endpoint answers with a redirect to the signed URL of
\* the remote object of a hash, that object has been uploaded; a cache hit
\* whose earlier upload failed is not answered with a redirect.
C19_RedirectImpliesUploaded ==
    last.kind = "redirect" => s3_objects[last.hash[1]] # None

\* C20: the remote tier mirrors the local tier: if a remote object exists
\* for a hash, a local cache file exists for that hash and holds the same
\* serialized rig.
C20_RemoteMirrorsLocal ==
    \A h \in Hashes :
        s3_objects[h] # None =>
            cache_files[h] # None /\ cache_files[h] = s3_objects[h]

\* an object was uploaded by the last request, next to objects of other
\* hashes
C20_Witness ==
    /\ last.put /\ last.wrote
    /\ s3_objects[last.hash[1]] # None
    /\ \E h \in Hashes \ {last.hash[1]} : s3_objects[h] # None

\* two finished requests that passed the limiter and the credential check
\* carried the same payload, were in flight together and both started
\* before the hash had a cache file
Together(i, j) ==
    /\ i # j /\ flight[i].pc = "done" /\ flight[j].pc = "done"
    /\ flight[i].status \notin {429, 401, 400}
    /\ flight[j].status \notin {429, 401, 400}
    /\ j \in flight[i].peers
    /\ flight[i].unseen /\ flight[j].unseen

\* C16: under every interleaving of concurrent requests for the same unseen
\* hash, each request is answered successfully (none fails because another
\* one wrote the entry first), all return the same rig, and afterwards the
\* cache file of the hash holds that rig.  (Stated for requests the first
\* of which computed and stored a rig.)
C16_ConcurrentSameHash ==
    \A i \in Slots, j \in Slots :
        (Together(i, j) /\ (flight[i].wrote \/ flight[j].wrote)) =>
            /\ flight[i].status \in {200, 302}
            /\ flight[j].status \in {200, 302}
            /\ ReturnedRig(flight[i], s3_objects) # None
            /\ ReturnedRig(flight[i], s3_objects)
                   = ReturnedRig(flight[j], s3_objects)
            /\ cache_files[flight[i].hash[1]]
                   = Some(json_dumps(ReturnedRig(flight[i], s3_objects)[1]))

\* every cache file holds a complete serialized rig: three rows, each a
\* type and the eight coordinates of four points
Complete_(text) ==
    /\ Len(text) = 3
    /\ \A k \in 1..3 : Len(text[k]) = 9
    /\ json_dumps(json_loads(text)) = text

\* C17: no partial-write visibility: whenever a request can run, every
\* cache file that exists holds the complete serialized rig that was
\* written, and a request that found the file of its hash was not answered
\* with a fault of reading it.
C17_NoPartialWrite ==
    /\ \A h \in Cached : Complete_(cache_files[h][1])
    /\ \A i \in Slots :
          (flight[i].pc = "done" /\ flight[i].source = "cache"
           /\ flight[i].kind = "json") =>
              /\ WellShaped(flight[i].rig[1])
              /\ Some(json_dumps(flight[i].rig[1]))
                    = cache_files[flight[i].hash[1]]

\* a request that was suspended while another request wrote the file of
\* its hash read the file when it went on
C17_Witness ==
    \E i \in Slots, j \in Slots :
        /\ Together(i, j) /\ flight[i].wrote
        /\ flight[j].source = "cache" /\ flight[j].kind = "json"
        /\ flight[j].rig = flight[i].rig

\* the timestamps of the sequence inside the window (now - WINDOW, now]
Recent(seq) == SelectSeq(seq, LAMBDA ts : ts > now - WINDOW)

\* C18: no lost update in the limiter: under every interleaving of
\* concurrent requests of one client id, the timestamp of every admitted
\* request that is still inside the window is in the stored record, and
\* no window holds more admissions of the client than RATE_LIMIT.
C18_NoLostUpdate ==
    /\ \A cid \in ClientIds :
          Recent(admits[cid]) = Recent(_REQUEST_LOG[cid])
    /\ WindowBound

\* a request was rejected while RATE_LIMIT admitted requests of its
\* client were still suspended in file.read()
C18_Witness ==
    /\ \E i \in Slots : flight[i].pc = "done" /\ flight[i].status = 429
    /\ Cardinality({j \in Slots : flight[j].pc = "reading"}) >= RATE_LIMIT

\* C21: a rejected check records no timestamp, so rejected attempts do not
\* count toward the capacity and do not extend the lockout: a client that
\* keeps sending requests while limited is admitted by the first check made
\* once fewer than RATE_LIMIT of its admitted timestamps are inside the
\* window.
C21_RejectedNotRecorded ==
    [][RequestStep =>
        /\ last'.status = 429 => _REQUEST_LOG' = _REQUEST_LOG
        /\ \A i \in DOMAIN _REQUEST_LOG'[Requester] :
              \E k \in DOMAIN admits'[Requester] :
                  admits'[Requester][k] = _REQUEST_LOG'[Requester][i]
        /\ (lockout[Requester] = "limited"
            /\ AdmitsIn(Requester, now - WINDOW, now) < RATE_LIMIT) =>
              last'.status # 429]_vars

\* a client that filled its window and was rejected is admitted by a later
\* check, made when its first admission is exactly WINDOW old
C21_Witness ==
    /\ last.status # 0 /\ last.status # 429
    /\ lockout[client_id(last.host, last.key)] = "readmitted"
    /\ Len(admits[client_id(last.host, last.key)]) = RATE_LIMIT + 1
    /\ admits[client_id(last.host, last.key)][RATE_LIMIT + 1] = now
    /\ admits[client_id(last.host, last.key)][1] = now - WINDOW

====
